---- MODULE Spec2Model ----
(***************************************************************************)
(* Deep pixel block codec of exrs (src/block/deep.rs): the conversion      *)
(* between compressed deep scanline / tile blocks and the in-memory        *)
(* DeepSamples, with the collaborators it calls (the DeepSamples           *)
(* container and the deep compression layer).                              *)
(*                                                                         *)
(* Byte vectors are sequences of 0..255, typed sample values are their     *)
(* 16- or 32-bit patterns as naturals, Rust's 0-based indices are kept     *)
(* and shifted by one where a sequence is indexed.                         *)
(***************************************************************************)
EXTENDS Integers, Sequences, FiniteSets, TLC

\* ------------------------------------------------------------------ bounds

\* Largest number of pixels (width * height) of a block.
MaxPixels == 4
\* Largest total number of samples of a block built in memory.
MaxTotal == 2
\* Longest channel list.
MaxChannels == 2
\* Sample counts are u32 / i32 in the source.  The casts between them keep
\* their two's-complement wrap, at OffsetBits bits instead of 32, so that
\* both sides of the wrap lie within the offsets the model enumerates.
OffsetBits == 5

\* ------------------------------------------------------------- Result<T>

Ok(v) == [ok |-> TRUE, val |-> v]

Err(kind) == [ok |-> FALSE, err |-> kind]

\* The function did not return: a panic (an index out of bounds, a failed
\* assertion).
Panic(what) == [ok |-> FALSE, panic |-> what]

\* ------------------------------------------------------ integer conversions

RECURSIVE Pow(_, _)
Pow(b, e) == IF e = 0 THEN 1 ELSE b * Pow(b, e - 1)

\* `c as i32` of a u32 sample count.
AsI32(c) == IF c >= Pow(2, OffsetBits - 1) THEN c - Pow(2, OffsetBits) ELSE c

\* `c as u32` of an i32 table entry.
AsU32(c) == IF c < 0 THEN c + Pow(2, OffsetBits) ELSE c

\* `b as i8` of a byte.
AsI8(b) == IF b >= 128 THEN b - 256 ELSE b

\* `b as u8` of a signed byte.
AsU8(b) == IF b < 0 THEN b + 256 ELSE b

\* to_le_bytes of an n-byte value: least significant byte first.
to_le_bytes(value, n) == [k \in 1..n |-> (value \div Pow(256, k - 1)) % 256]

RECURSIVE from_le_bytes(_)
\* from_le_bytes: the value whose least significant byte comes first.
from_le_bytes(bytes) ==
    IF bytes = <<>> THEN 0
    ELSE bytes[1] + 256 * from_le_bytes(Tail(bytes))

\* An i32 read from its four little-endian bytes (the top byte carries the sign).
i32_from_le_bytes(bytes) ==
    from_le_bytes(SubSeq(bytes, 1, 3)) + Pow(256, 3) * AsI8(bytes[4])

\* ----------------------------------------------------- channel descriptions

SampleTypes == {"F16", "F32", "U32"}

\* SampleType::bytes_per_sample
bytes_per_sample(sample_type) == IF sample_type = "F16" THEN 2 ELSE 4

RECURSIVE SumBytes(_, _)
\* channels.list.iter().map(|ch| ch.sample_type.bytes_per_sample()).sum()
\* over the first n channels of the list.
SumBytes(channels, n) ==
    IF n = 0 THEN 0
    ELSE SumBytes(channels, n - 1) + bytes_per_sample(channels.list[n].sample_type)

\* ------------------------------------------------------------- DeepSamples

\* DeepSamples::new: no offsets set yet, no channel storage.
DeepSamplesNew(width, height) ==
    [width |-> width, height |-> height, sample_offsets |-> <<>>, channels |-> <<>>]

pixel_count(samples) == samples.width * samples.height

\* total_samples = sample_offsets[pixel_count]
total_samples(samples) ==
    IF samples.sample_offsets = <<>> THEN 0
    ELSE samples.sample_offsets[Len(samples.sample_offsets)]

\* sample_range(i) = (sample_offsets[i], sample_offsets[i+1])
sample_range(samples, pixel_idx) ==
    <<samples.sample_offsets[pixel_idx + 1], samples.sample_offsets[pixel_idx + 2]>>

\* set_cumulative_counts: pixel_count + 1 entries, or pixel_count entries to
\* which the leading 0 is prepended; must start at 0 and never decrease.
set_cumulative_counts(samples, cumulative) ==
    LET pc == pixel_count(samples)
        full == IF Len(cumulative) = pc THEN <<0>> \o cumulative ELSE cumulative
    IN  IF Len(cumulative) # pc /\ Len(cumulative) # pc + 1 THEN Err("Malformed")
        ELSE IF full[1] # 0 THEN Err("Malformed")
        ELSE IF \E i \in 1..(Len(full) - 1) : full[i + 1] < full[i] THEN Err("Malformed")
        ELSE Ok([samples EXCEPT !.sample_offsets = full])

\* allocate_channels: one typed array per channel of the list, of length
\* total_samples, with the variant of the channel's sample_type.
allocate_channels(samples, channels) ==
    [samples EXCEPT !.channels =
        [c \in 1..Len(channels.list) |->
            [tag |-> channels.list[c].sample_type,
             v |-> [g \in 1..total_samples(samples) |-> 0]]]]

\* validate: the structural self-check of the offsets and the array lengths.
validate(samples) ==
    IF /\ Len(samples.sample_offsets) = pixel_count(samples) + 1
       /\ samples.sample_offsets[1] = 0
       /\ \A i \in 1..pixel_count(samples) :
            samples.sample_offsets[i] <= samples.sample_offsets[i + 1]
       /\ \A c \in 1..Len(samples.channels) :
            Len(samples.channels[c].v) = total_samples(samples)
    THEN Ok(samples)
    ELSE Err("InternalConsistency")

\* --------------------------------------------------- unpack_deep_channels

RECURSIVE unpack_channels(_, _, _, _, _, _)
\* The innermost loop of unpack: for each channel of the list, read the
\* channel type's bytes at the cursor, store the value at dest_idx when the
\* array has that variant, and advance the cursor.
unpack_channels(data, samples, channels, dest_idx, ch_idx, data_offset) ==
    IF ch_idx >= Len(channels.list)
    THEN [samples |-> samples, data_offset |-> data_offset, panic |-> FALSE]
    ELSE IF ch_idx >= Len(samples.channels)
    THEN [samples |-> samples, data_offset |-> data_offset, panic |-> TRUE]
    ELSE LET channel_desc == channels.list[ch_idx + 1]
             channel_data == samples.channels[ch_idx + 1]
             n == IF channel_desc.sample_type = "F16" THEN 2 ELSE 4
         IN  IF data_offset + n > Len(data)
                \/ (channel_data.tag = channel_desc.sample_type
                    /\ dest_idx >= Len(channel_data.v))
             THEN [samples |-> samples, data_offset |-> data_offset, panic |-> TRUE]
             ELSE
             LET bytes == [k \in 1..n |-> data[data_offset + k]]
                 value == from_le_bytes(bytes)
                 stored == IF channel_data.tag = channel_desc.sample_type
                           THEN [samples EXCEPT !.channels[ch_idx + 1].v[dest_idx + 1] = value]
                           ELSE samples
             IN  unpack_channels(data, stored, channels, dest_idx, ch_idx + 1, data_offset + n)

RECURSIVE unpack_samples_local_index(_, _, _, _, _, _, _)
\* unpack_samples storing at the sample's index within its pixel
\* (dest_idx = sample_idx, without the pixel's start).
unpack_samples_local_index(data, samples, channels, start, sample_count, sample_idx, data_offset) ==
    IF sample_idx >= sample_count
    THEN [samples |-> samples, data_offset |-> data_offset, panic |-> FALSE]
    ELSE LET dest_idx == sample_idx
             r == unpack_channels(data, samples, channels, dest_idx, 0, data_offset)
         IN  IF r.panic THEN r
             ELSE unpack_samples_local_index(data, r.samples, channels, start, sample_count,
                                        sample_idx + 1, r.data_offset)

RECURSIVE unpack_samples(_, _, _, _, _, _, _)
\* for sample_idx in 0..sample_count
unpack_samples(data, samples, channels, start, sample_count, sample_idx, data_offset) ==
    IF sample_idx >= sample_count
    THEN [samples |-> samples, data_offset |-> data_offset, panic |-> FALSE]
    ELSE LET dest_idx == start + sample_idx
             r == unpack_channels(data, samples, channels, dest_idx, 0, data_offset)
         IN  IF r.panic THEN r
             ELSE unpack_samples(data, r.samples, channels, start, sample_count,
                            sample_idx + 1, r.data_offset)

RECURSIVE unpack_pixels(_, _, _, _, _)
\* for pixel_idx in 0..pixel_count
unpack_pixels(data, samples, channels, pixel_idx, data_offset) ==
    IF pixel_idx >= pixel_count(samples)
    THEN [samples |-> samples, data_offset |-> data_offset, panic |-> FALSE]
    ELSE LET range == sample_range(samples, pixel_idx)
             sample_count == range[2] - range[1]
             r == unpack_samples(data, samples, channels, range[1], sample_count,
                                 0, data_offset)
         IN  IF r.panic THEN r
             ELSE unpack_pixels(data, r.samples, channels, pixel_idx + 1, r.data_offset)

\* unpack_deep_channels whose zero-sample return allocates no channels.
unpack_run_empty_unallocated(data, samples, channels) ==
    IF total_samples(samples) = 0
    THEN [result |-> Ok(samples), data_offset |-> 0]
    ELSE LET allocated == allocate_channels(samples, channels)
             expected_size == total_samples(samples) * SumBytes(channels, Len(channels.list))
         IN  IF Len(data) # expected_size
             THEN [result |-> Err("SizeMismatch"), data_offset |-> 0]
             ELSE LET r == unpack_pixels(data, allocated, channels, 0, 0)
                  IN  [result |-> IF r.panic THEN Panic("index out of bounds")
                                  ELSE IF r.data_offset # Len(data)
                                  THEN Panic("not all deep data was consumed")
                                  ELSE Ok(r.samples),
                       data_offset |-> r.data_offset]

\* unpack_deep_channels refusing only a buffer that is too long.
unpack_run_long_only(data, samples, channels) ==
    IF total_samples(samples) = 0
    THEN [result |-> Ok(allocate_channels(samples, channels)), data_offset |-> 0]
    ELSE LET allocated == allocate_channels(samples, channels)
             expected_size == total_samples(samples) * SumBytes(channels, Len(channels.list))
         IN  IF Len(data) > expected_size
             THEN [result |-> Err("SizeMismatch"), data_offset |-> 0]
             ELSE LET r == unpack_pixels(data, allocated, channels, 0, 0)
                  IN  [result |-> IF r.panic THEN Panic("index out of bounds")
                                  ELSE IF r.data_offset # Len(data)
                                  THEN Panic("not all deep data was consumed")
                                  ELSE Ok(r.samples),
                       data_offset |-> r.data_offset]

\* unpack_deep_channels refusing only a buffer that is too short.
unpack_run_short_only(data, samples, channels) ==
    IF total_samples(samples) = 0
    THEN [result |-> Ok(allocate_channels(samples, channels)), data_offset |-> 0]
    ELSE LET allocated == allocate_channels(samples, channels)
             expected_size == total_samples(samples) * SumBytes(channels, Len(channels.list))
         IN  IF Len(data) < expected_size
             THEN [result |-> Err("SizeMismatch"), data_offset |-> 0]
             ELSE LET r == unpack_pixels(data, allocated, channels, 0, 0)
                  IN  [result |-> IF r.panic THEN Panic("index out of bounds")
                                  ELSE IF r.data_offset # Len(data)
                                  THEN Panic("not all deep data was consumed")
                                  ELSE Ok(r.samples),
                       data_offset |-> r.data_offset]

\* unpack_deep_channels with the cursor it ends at: the zero-sample return
\* comes first, then the allocation, then the size check, then the loops
\* with their bounds-checked indexing, then the debug assertion on the cursor.
unpack_run(data, samples, channels) ==
    IF total_samples(samples) = 0
    THEN [result |-> Ok(allocate_channels(samples, channels)), data_offset |-> 0]
    ELSE LET allocated == allocate_channels(samples, channels)
             expected_size == total_samples(samples) * SumBytes(channels, Len(channels.list))
         IN  IF Len(data) # expected_size
             THEN [result |-> Err("SizeMismatch"), data_offset |-> 0]
             ELSE LET r == unpack_pixels(data, allocated, channels, 0, 0)
                  IN  [result |-> IF r.panic THEN Panic("index out of bounds")
                                  ELSE IF r.data_offset # Len(data)
                                  THEN Panic("not all deep data was consumed")
                                  ELSE Ok(r.samples),
                       data_offset |-> r.data_offset]

\* unpack_deep_channels that returns Ok without touching the DeepSamples.
unpack_deep_channels_skipped(data, samples, channels) == Ok(samples)

\* unpack_deep_channels: Ok with the filled DeepSamples, or the error.
unpack_deep_channels(data, samples, channels) == unpack_run(data, samples, channels).result

\* ----------------------------------------------------- pack_deep_channels

RECURSIVE pack_channels_big_endian(_, _, _, _, _)
\* pack_channels writing each value most significant byte first.
pack_channels_big_endian(samples, channels, src_idx, ch_idx, data) ==
    IF ch_idx >= Len(channels.list) THEN data
    ELSE LET channel_desc == channels.list[ch_idx + 1]
             channel_data == samples.channels[ch_idx + 1]
             n == IF channel_desc.sample_type = "F16" THEN 2 ELSE 4
             le == to_le_bytes(channel_data.v[src_idx + 1], n)
             extended == IF channel_data.tag = channel_desc.sample_type
                         THEN data \o [k \in 1..n |-> le[n + 1 - k]]
                         ELSE data
         IN  pack_channels_big_endian(samples, channels, src_idx, ch_idx + 1, extended)

RECURSIVE pack_channels(_, _, _, _, _)
\* The innermost loop of pack: for each channel of the list, append the
\* little-endian bytes of the value at src_idx when the array has the
\* variant of the channel's sample_type, and nothing otherwise.
pack_channels(samples, channels, src_idx, ch_idx, data) ==
    IF ch_idx >= Len(channels.list) THEN data
    ELSE LET channel_desc == channels.list[ch_idx + 1]
             channel_data == samples.channels[ch_idx + 1]
             n == IF channel_desc.sample_type = "F16" THEN 2 ELSE 4
             extended == IF channel_data.tag = channel_desc.sample_type
                         THEN data \o to_le_bytes(channel_data.v[src_idx + 1], n)
                         ELSE data
         IN  pack_channels(samples, channels, src_idx, ch_idx + 1, extended)

RECURSIVE pack_samples(_, _, _, _, _, _)
\* for sample_idx in 0..sample_count
pack_samples(samples, channels, start, sample_count, sample_idx, data) ==
    IF sample_idx >= sample_count THEN data
    ELSE pack_samples(samples, channels, start, sample_count, sample_idx + 1,
                      pack_channels(samples, channels, start + sample_idx, 0, data))

RECURSIVE pack_pixels(_, _, _, _)
\* for pixel_idx in 0..pixel_count
pack_pixels(samples, channels, pixel_idx, data) ==
    IF pixel_idx >= pixel_count(samples) THEN data
    ELSE LET range == sample_range(samples, pixel_idx)
         IN  pack_pixels(samples, channels, pixel_idx + 1,
                         pack_samples(samples, channels, range[1], range[2] - range[1],
                                      0, data))

\* pack_deep_channels: the pixel-interleaved little-endian bytes.
pack_deep_channels(samples, channels) ==
    IF total_samples(samples) = 0 THEN <<>>
    ELSE pack_pixels(samples, channels, 0, <<>>)

\* ------------------------------------------- compression layer (external)

\* The compressions the model uses: one the deep layer applies as stored
\* bytes, and one it cannot apply to deep data.
Compressions == {"Uncompressed", "B44"}

\* Whether the compression layer accepts the tag for deep data.
SupportsDeep(compression) == compression = "Uncompressed"

RECURSIVE Flatten(_)
Flatten(seqs) == IF seqs = <<>> THEN <<>> ELSE seqs[1] \o Flatten(Tail(seqs))

\* compress_sample_table: the i32 entries as little-endian bytes.
compress_sample_table(compression, table) ==
    IF ~SupportsDeep(compression) THEN Err("Unsupported")
    ELSE Ok(Flatten([i \in 1..Len(table) |-> to_le_bytes(table[i], 4)]))

\* decompress_sample_table: width * height i32 entries, Malformed when the
\* bytes do not hold exactly that many.
decompress_sample_table(compression, bytes, width, height, pedantic) ==
    IF ~SupportsDeep(compression) THEN Err("Unsupported")
    ELSE IF Len(bytes) # 4 * width * height THEN Err("Malformed")
    ELSE Ok([i \in 1..(width * height) |->
                i32_from_le_bytes(SubSeq(bytes, 4 * i - 3, 4 * i))])

\* validate_sample_table: the table is all it is given; it rejects a table
\* with a negative entry. Lines are not known to it, so the order of the
\* entries is left to set_cumulative_counts.
validate_sample_table(table) ==
    IF \E i \in 1..Len(table) : table[i] < 0 THEN Err("Malformed")
    ELSE Ok(table)

\* compress_sample_data
compress_sample_data(compression, data) ==
    IF ~SupportsDeep(compression) THEN Err("Unsupported") ELSE Ok(data)

\* decompress_sample_data: raw bytes of exactly expected_size; without
\* pedantic a trailing run of at most 7 zero bytes is dropped.
decompress_sample_data(compression, bytes, expected_size, pedantic) ==
    IF ~SupportsDeep(compression) THEN Err("Unsupported")
    ELSE IF Len(bytes) = expected_size THEN Ok(bytes)
    ELSE IF /\ ~pedantic
            /\ Len(bytes) > expected_size
            /\ Len(bytes) - expected_size <= 7
            /\ \A i \in (expected_size + 1)..Len(bytes) : bytes[i] = 0
         THEN Ok(SubSeq(bytes, 1, expected_size))
    ELSE Err("SizeMismatch")

\* ------------------------------------------------------------ block codec

\* The decodes return what the function returns (`result`) together with the
\* collaborators it invoked (`calls`), what it handed to set_cumulative_counts
\* (`installed`) and the buffer it handed to unpack_deep_channels (`unpacked`).
\* Each `?` of the source returns the error at once.

\* decompress_deep_scanline_block without the validate_sample_table step: the
\* decompressed table goes to the cast as it is.
decompress_deep_scanline_block_unvalidated(block, compression, channels, data_window_width, lines_per_block, pedantic) ==
    LET width == data_window_width
        height == lines_per_block
        table_bytes == [i \in 1..Len(block.compressed_pixel_offset_table) |->
                           AsU8(block.compressed_pixel_offset_table[i])]
        cumulative_counts ==
            decompress_sample_table(compression, table_bytes, width, height, pedantic)
        none == [installed |-> <<>>, unpacked |-> <<>>]
    IN  IF ~cumulative_counts.ok
        THEN [result |-> cumulative_counts,
              calls |-> <<"decompress_sample_table">>] @@ none
        ELSE
        LET validated == Ok(cumulative_counts.val)
        IN  IF ~validated.ok
            THEN [result |-> validated,
                  calls |-> <<"decompress_sample_table", "validate_sample_table">>] @@ none
            ELSE
            LET cumulative_u32 == [i \in 1..Len(cumulative_counts.val) |->
                                      AsU32(cumulative_counts.val[i])]
                samples == set_cumulative_counts(DeepSamplesNew(width, height),
                                                 cumulative_u32)
                calls3 == <<"decompress_sample_table", "validate_sample_table",
                            "set_cumulative_counts">>
            IN  IF ~samples.ok
                THEN [result |-> samples, calls |-> calls3,
                      installed |-> cumulative_u32, unpacked |-> <<>>]
                ELSE
                LET decompressed_data ==
                        decompress_sample_data(compression, block.compressed_sample_data_le,
                                               block.decompressed_sample_data_size, pedantic)
                    calls4 == Append(calls3, "decompress_sample_data")
                IN  IF ~decompressed_data.ok
                    THEN [result |-> decompressed_data, calls |-> calls4,
                          installed |-> cumulative_u32, unpacked |-> <<>>]
                    ELSE
                    LET unpacked == unpack_deep_channels(decompressed_data.val,
                                                         samples.val, channels)
                        calls5 == Append(calls4, "unpack_deep_channels")
                    IN  IF ~unpacked.ok
                        THEN [result |-> unpacked, calls |-> calls5,
                              installed |-> cumulative_u32,
                              unpacked |-> decompressed_data.val]
                        ELSE [result |-> validate(unpacked.val),
                              calls |-> Append(calls5, "validate"),
                              installed |-> cumulative_u32,
                              unpacked |-> decompressed_data.val]

\* decompress_deep_scanline_block
decompress_deep_scanline_block(block, compression, channels, data_window_width, lines_per_block, pedantic) ==
    LET width == data_window_width
        height == lines_per_block
        table_bytes == [i \in 1..Len(block.compressed_pixel_offset_table) |->
                           AsU8(block.compressed_pixel_offset_table[i])]
        cumulative_counts ==
            decompress_sample_table(compression, table_bytes, width, height, pedantic)
        none == [installed |-> <<>>, unpacked |-> <<>>]
    IN  IF ~cumulative_counts.ok
        THEN [result |-> cumulative_counts,
              calls |-> <<"decompress_sample_table">>] @@ none
        ELSE
        LET validated == validate_sample_table(cumulative_counts.val)
        IN  IF ~validated.ok
            THEN [result |-> validated,
                  calls |-> <<"decompress_sample_table", "validate_sample_table">>] @@ none
            ELSE
            LET cumulative_u32 == [i \in 1..Len(cumulative_counts.val) |->
                                      AsU32(cumulative_counts.val[i])]
                samples == set_cumulative_counts(DeepSamplesNew(width, height),
                                                 cumulative_u32)
                calls3 == <<"decompress_sample_table", "validate_sample_table",
                            "set_cumulative_counts">>
            IN  IF ~samples.ok
                THEN [result |-> samples, calls |-> calls3,
                      installed |-> cumulative_u32, unpacked |-> <<>>]
                ELSE
                LET decompressed_data ==
                        decompress_sample_data(compression, block.compressed_sample_data_le,
                                               block.decompressed_sample_data_size, pedantic)
                    calls4 == Append(calls3, "decompress_sample_data")
                IN  IF ~decompressed_data.ok
                    THEN [result |-> decompressed_data, calls |-> calls4,
                          installed |-> cumulative_u32, unpacked |-> <<>>]
                    ELSE
                    LET unpacked == unpack_deep_channels(decompressed_data.val,
                                                         samples.val, channels)
                        calls5 == Append(calls4, "unpack_deep_channels")
                    IN  IF ~unpacked.ok
                        THEN [result |-> unpacked, calls |-> calls5,
                              installed |-> cumulative_u32,
                              unpacked |-> decompressed_data.val]
                        ELSE [result |-> validate(unpacked.val),
                              calls |-> Append(calls5, "validate"),
                              installed |-> cumulative_u32,
                              unpacked |-> decompressed_data.val]

\* decompress_deep_tile_block without the `?` on set_cumulative_counts: a
\* refused table leaves the DeepSamples as new and the decode goes on.
decompress_deep_tile_block_unchecked_counts(block, compression, channels, tile_width, tile_height, pedantic) ==
    LET table_bytes == [i \in 1..Len(block.compressed_pixel_offset_table) |->
                           AsU8(block.compressed_pixel_offset_table[i])]
        cumulative_counts ==
            decompress_sample_table(compression, table_bytes, tile_width, tile_height, pedantic)
        none == [installed |-> <<>>, unpacked |-> <<>>]
    IN  IF ~cumulative_counts.ok
        THEN [result |-> cumulative_counts,
              calls |-> <<"decompress_sample_table">>] @@ none
        ELSE
        LET validated == validate_sample_table(cumulative_counts.val)
        IN  IF ~validated.ok
            THEN [result |-> validated,
                  calls |-> <<"decompress_sample_table", "validate_sample_table">>] @@ none
            ELSE
            LET cumulative_u32 == [i \in 1..Len(cumulative_counts.val) |->
                                      AsU32(cumulative_counts.val[i])]
                fresh == DeepSamplesNew(tile_width, tile_height)
                installing == set_cumulative_counts(fresh, cumulative_u32)
                samples == IF installing.ok THEN installing ELSE Ok(fresh)
                calls3 == <<"decompress_sample_table", "validate_sample_table",
                            "set_cumulative_counts">>
            IN  IF ~samples.ok
                THEN [result |-> samples, calls |-> calls3,
                      installed |-> cumulative_u32, unpacked |-> <<>>]
                ELSE
                LET decompressed_data ==
                        decompress_sample_data(compression, block.compressed_sample_data_le,
                                               block.decompressed_sample_data_size, pedantic)
                    calls4 == Append(calls3, "decompress_sample_data")
                IN  IF ~decompressed_data.ok
                    THEN [result |-> decompressed_data, calls |-> calls4,
                          installed |-> cumulative_u32, unpacked |-> <<>>]
                    ELSE
                    LET unpacked == unpack_deep_channels(decompressed_data.val,
                                                         samples.val, channels)
                        calls5 == Append(calls4, "unpack_deep_channels")
                    IN  IF ~unpacked.ok
                        THEN [result |-> unpacked, calls |-> calls5,
                              installed |-> cumulative_u32,
                              unpacked |-> decompressed_data.val]
                        ELSE [result |-> validate(unpacked.val),
                              calls |-> Append(calls5, "validate"),
                              installed |-> cumulative_u32,
                              unpacked |-> decompressed_data.val]

\* decompress_deep_tile_block without the `?` on decompress_sample_table: a
\* table refused as Malformed is read from the bytes as they are.
decompress_deep_tile_block_any_length(block, compression, channels, tile_width, tile_height, pedantic) ==
    LET table_bytes == [i \in 1..Len(block.compressed_pixel_offset_table) |->
                           AsU8(block.compressed_pixel_offset_table[i])]
        refused ==
            decompress_sample_table(compression, table_bytes, tile_width, tile_height, pedantic)
        cumulative_counts ==
            IF refused.ok \/ refused.err # "Malformed" THEN refused
            ELSE Ok([i \in 1..(Len(table_bytes) \div 4) |->
                        i32_from_le_bytes(SubSeq(table_bytes, 4 * i - 3, 4 * i))])
        none == [installed |-> <<>>, unpacked |-> <<>>]
    IN  IF ~cumulative_counts.ok
        THEN [result |-> cumulative_counts,
              calls |-> <<"decompress_sample_table">>] @@ none
        ELSE
        LET validated == validate_sample_table(cumulative_counts.val)
        IN  IF ~validated.ok
            THEN [result |-> validated,
                  calls |-> <<"decompress_sample_table", "validate_sample_table">>] @@ none
            ELSE
            LET cumulative_u32 == [i \in 1..Len(cumulative_counts.val) |->
                                      AsU32(cumulative_counts.val[i])]
                samples == set_cumulative_counts(DeepSamplesNew(tile_width, tile_height),
                                                 cumulative_u32)
                calls3 == <<"decompress_sample_table", "validate_sample_table",
                            "set_cumulative_counts">>
            IN  IF ~samples.ok
                THEN [result |-> samples, calls |-> calls3,
                      installed |-> cumulative_u32, unpacked |-> <<>>]
                ELSE
                LET decompressed_data ==
                        decompress_sample_data(compression, block.compressed_sample_data_le,
                                               block.decompressed_sample_data_size, pedantic)
                    calls4 == Append(calls3, "decompress_sample_data")
                IN  IF ~decompressed_data.ok
                    THEN [result |-> decompressed_data, calls |-> calls4,
                          installed |-> cumulative_u32, unpacked |-> <<>>]
                    ELSE
                    LET unpacked == unpack_deep_channels(decompressed_data.val,
                                                         samples.val, channels)
                        calls5 == Append(calls4, "unpack_deep_channels")
                    IN  IF ~unpacked.ok
                        THEN [result |-> unpacked, calls |-> calls5,
                              installed |-> cumulative_u32,
                              unpacked |-> decompressed_data.val]
                        ELSE [result |-> validate(unpacked.val),
                              calls |-> Append(calls5, "validate"),
                              installed |-> cumulative_u32,
                              unpacked |-> decompressed_data.val]

\* decompress_deep_tile_block
decompress_deep_tile_block(block, compression, channels, tile_width, tile_height, pedantic) ==
    LET table_bytes == [i \in 1..Len(block.compressed_pixel_offset_table) |->
                           AsU8(block.compressed_pixel_offset_table[i])]
        cumulative_counts ==
            decompress_sample_table(compression, table_bytes, tile_width, tile_height, pedantic)
        none == [installed |-> <<>>, unpacked |-> <<>>]
    IN  IF ~cumulative_counts.ok
        THEN [result |-> cumulative_counts,
              calls |-> <<"decompress_sample_table">>] @@ none
        ELSE
        LET validated == validate_sample_table(cumulative_counts.val)
        IN  IF ~validated.ok
            THEN [result |-> validated,
                  calls |-> <<"decompress_sample_table", "validate_sample_table">>] @@ none
            ELSE
            LET cumulative_u32 == [i \in 1..Len(cumulative_counts.val) |->
                                      AsU32(cumulative_counts.val[i])]
                samples == set_cumulative_counts(DeepSamplesNew(tile_width, tile_height),
                                                 cumulative_u32)
                calls3 == <<"decompress_sample_table", "validate_sample_table",
                            "set_cumulative_counts">>
            IN  IF ~samples.ok
                THEN [result |-> samples, calls |-> calls3,
                      installed |-> cumulative_u32, unpacked |-> <<>>]
                ELSE
                LET decompressed_data ==
                        decompress_sample_data(compression, block.compressed_sample_data_le,
                                               block.decompressed_sample_data_size, pedantic)
                    calls4 == Append(calls3, "decompress_sample_data")
                IN  IF ~decompressed_data.ok
                    THEN [result |-> decompressed_data, calls |-> calls4,
                          installed |-> cumulative_u32, unpacked |-> <<>>]
                    ELSE
                    LET unpacked == unpack_deep_channels(decompressed_data.val,
                                                         samples.val, channels)
                        calls5 == Append(calls4, "unpack_deep_channels")
                    IN  IF ~unpacked.ok
                        THEN [result |-> unpacked, calls |-> calls5,
                              installed |-> cumulative_u32,
                              unpacked |-> decompressed_data.val]
                        ELSE [result |-> validate(unpacked.val),
                              calls |-> Append(calls5, "validate"),
                              installed |-> cumulative_u32,
                              unpacked |-> decompressed_data.val]

\* The table each compress function hands to compress_sample_table:
\* samples.sample_offsets.iter().map(|&c| c as i32).collect()
cumulative_i32(samples) ==
    [i \in 1..Len(samples.sample_offsets) |-> AsI32(samples.sample_offsets[i])]

\* compress_deep_scanline_block
compress_deep_scanline_block(samples, compression, channels, y_coordinate) ==
    LET compressed_table == compress_sample_table(compression, cumulative_i32(samples))
    IN  IF ~compressed_table.ok THEN compressed_table
        ELSE
        LET packed_data == pack_deep_channels(samples, channels)
            decompressed_size == Len(packed_data)
            compressed_data == compress_sample_data(compression, packed_data)
        IN  IF ~compressed_data.ok THEN compressed_data
            ELSE Ok([y_coordinate |-> y_coordinate,
                     decompressed_sample_data_size |-> decompressed_size,
                     compressed_pixel_offset_table |->
                         [i \in 1..Len(compressed_table.val) |->
                             AsI8(compressed_table.val[i])],
                     compressed_sample_data_le |-> compressed_data.val])

\* compress_deep_tile_block that records the first tile of the first level
\* whatever coordinates it is given.
compress_deep_tile_block_first_tile(samples, compression, channels, coordinates) ==
    LET compressed_table == compress_sample_table(compression, cumulative_i32(samples))
    IN  IF ~compressed_table.ok THEN compressed_table
        ELSE
        LET packed_data == pack_deep_channels(samples, channels)
            decompressed_size == Len(packed_data)
            compressed_data == compress_sample_data(compression, packed_data)
        IN  IF ~compressed_data.ok THEN compressed_data
            ELSE Ok([coordinates |-> [tile_index |-> <<0, 0>>, level_index |-> <<0, 0>>],
                     decompressed_sample_data_size |-> decompressed_size,
                     compressed_pixel_offset_table |->
                         [i \in 1..Len(compressed_table.val) |->
                             AsI8(compressed_table.val[i])],
                     compressed_sample_data_le |-> compressed_data.val])

\* compress_deep_tile_block
compress_deep_tile_block(samples, compression, channels, coordinates) ==
    LET compressed_table == compress_sample_table(compression, cumulative_i32(samples))
    IN  IF ~compressed_table.ok THEN compressed_table
        ELSE
        LET packed_data == pack_deep_channels(samples, channels)
            decompressed_size == Len(packed_data)
            compressed_data == compress_sample_data(compression, packed_data)
        IN  IF ~compressed_data.ok THEN compressed_data
            ELSE Ok([coordinates |-> coordinates,
                     decompressed_sample_data_size |-> decompressed_size,
                     compressed_pixel_offset_table |->
                         [i \in 1..Len(compressed_table.val) |->
                             AsI8(compressed_table.val[i])],
                     compressed_sample_data_le |-> compressed_data.val])

\* ----------------------------------------------------------------- inputs

RECURSIVE SumTo(_, _)
\* counts[1] + ... + counts[n]
SumTo(counts, n) == IF n = 0 THEN 0 ELSE SumTo(counts, n - 1) + counts[n]

\* Seed scenario S1: a 3 x 2 block with per-pixel counts [2,1,3][0,2,1].
ExampleCounts == <<2, 1, 3, 0, 2, 1>>

\* The block extents: every width x height of at most MaxPixels pixels,
\* zero extents included, and the 3 x 2 of the seed scenario.
Dims ==
    {d \in (0..MaxPixels) \X (0..MaxPixels) : d[1] * d[2] <= MaxPixels} \cup {<<3, 2>>}

\* The per-pixel sample counts of an n-pixel block: every vector of at most
\* MaxTotal samples in all; beyond MaxPixels pixels the seed scenario alone.
CountVectors(n) ==
    IF n > MaxPixels
    THEN IF n = Len(ExampleCounts) THEN {ExampleCounts} ELSE {}
    ELSE {counts \in [1..n -> 0..MaxTotal] : SumTo(counts, n) <= MaxTotal}

\* i32::MAX at the width the offsets are kept at.
I32Max == Pow(2, OffsetBits - 1) - 1

\* Counts whose total no longer fits an i32: one pixel of i32::MAX + 1
\* samples (a u32 offset can hold it), of a block without channels, so that
\* no array of that length has to exist.
OverflowCounts(n, channels) ==
    IF n = 1 /\ Len(channels.list) = 0 THEN {<<I32Max + 1>>} ELSE {}

\* In-memory offsets of the counts: per-pixel cumulative over the whole
\* block, without the leading 0.
GlobalCumulative(counts) == [i \in 1..Len(counts) |-> SumTo(counts, i)]

\* On-disk table of the counts (module doc, "Sample Offset Table"):
\* cumulative per scanline, restarting on each line.
PerLineCumulative(counts, width) ==
    [i \in 1..Len(counts) |->
        SumTo(counts, i) - SumTo(counts, ((i - 1) \div width) * width)]

\* Channel lists of at most MaxChannels channels of any sample types.
ChannelLists ==
    UNION {{[list |-> [c \in 1..n |-> [sample_type |-> types[c]]]] :
                types \in [1..n -> SampleTypes]} : n \in 0..MaxChannels}

\* The sample type after t in the order F16, F32, U32, F16.
NextType(t) == IF t = "F16" THEN "F32" ELSE IF t = "F32" THEN "U32" ELSE "F16"

\* The channel lists a caller may have allocated the arrays with: the list
\* it encodes with, or that list with one channel of another sample type.
AllocLists(channels) ==
    {channels} \cup
    {[list |-> [channels.list EXCEPT ![c].sample_type = NextType(@)]] :
        c \in 1..Len(channels.list)}

\* Bit patterns of half floats: 1.0, -0.0, a signalling NaN, the smallest
\* subnormal, -infinity, 0x0102.
F16Patterns == <<15360, 32768, 31745, 1, 64512, 258>>

\* 32-bit patterns: 0x01020304, 1.0f, a signalling NaN, 1, a quiet NaN, 0.
W32Patterns == <<16909060, 1065353216, 2139095041, 1, 2143289344, 0>>

ValueAt(tag, k) ==
    IF tag = "F16" THEN F16Patterns[(k % Len(F16Patterns)) + 1]
    ELSE W32Patterns[(k % Len(W32Patterns)) + 1]

\* The fills of the channel arrays: where in the patterns the values start.
Seeds == {0, 3}

\* The channel arrays filled as the tests fill them, by sample index.
Fill(samples, seed) ==
    [samples EXCEPT !.channels =
        [c \in 1..Len(samples.channels) |->
            [samples.channels[c] EXCEPT !.v =
                [g \in 1..Len(samples.channels[c].v) |->
                    ValueAt(samples.channels[c].tag, seed + 2 * c + g - 3)]]]]

\* ----------------------------------------------------------- state machine

VARIABLES
    width,        \* block width (data_window_width / tile_width)
    height,       \* block height (lines_per_block / tile_height)
    channels,     \* the ChannelList of the header
    samples,      \* the DeepSamples a caller built
    compression,  \* the compression of the last compress / of the block read
    pedantic,     \* the flag of the last decode
    op,           \* the operation applied last
    origin,       \* where the block came from: "encoded" by compress, or a "file"
    packed,       \* what pack_deep_channels returned
    recovered,    \* what unpack_deep_channels did on a fresh DeepSamples
    table,        \* the i32 table handed to compress_sample_table
    disk_table,   \* the decompressed offset table of the block read from a file
    block,        \* Result of the last compress, or the block read from a file
    decoded       \* what the last decode did and returned

\* The viewer (src/view/app.rs): the fields of ViewerApp on the UI thread and
\* the two channels between it and the worker thread.
VARIABLES
    generation,   \* ViewerApp::generation
    texture,      \* ViewerApp::texture: None, or Some(the pixels loaded last)
    state,        \* ViewerApp::state, cut to the field the handlers branch on
    tx,           \* every message sent to the worker so far, oldest first
    rx,           \* the events the worker sent that the UI has not received yet
    running,      \* FALSE once update has asked the viewport to close
    handled       \* what the last step's process_events received, and the
                  \* generation it compared with

codec_vars == <<width, height, channels, samples, compression, pedantic, op, origin,
                packed, recovered, table, disk_table, block, decoded>>

viewer_vars == <<generation, texture, state, tx, rx, running, handled>>

vars == <<codec_vars, viewer_vars>>

None == [some |-> FALSE]

Some(v) == [some |-> TRUE, val |-> v]

\* ViewerApp::new before any frame, no image path given.
ViewerNew ==
    /\ generation = 0
    /\ texture = None
    /\ state = [error |-> None]
    /\ tx = <<>>
    /\ rx = <<>>
    /\ running = TRUE
    /\ handled = [events |-> <<>>, generation |-> 0]

Init ==
    /\ \E d \in Dims : width = d[1] /\ height = d[2]
    /\ channels \in ChannelLists
    /\ samples = <<>>
    /\ compression = "Uncompressed"
    /\ pedantic = TRUE
    /\ op = "new"
    /\ origin = "none"
    /\ packed = <<>>
    /\ recovered = <<>>
    /\ table = <<>>
    /\ disk_table = <<>>
    /\ block = <<>>
    /\ decoded = <<>>
    /\ ViewerNew

\* A caller builds a DeepSamples as the tests do: new, set_cumulative_counts
\* (with or without the leading 0), allocate_channels, then the values.
MakeSamples ==
    /\ op = "new"
    /\ \E counts \in CountVectors(width * height)
                          \cup OverflowCounts(width * height, channels),
          leading \in BOOLEAN, alloc \in AllocLists(channels), seed \in Seeds :
        LET cumulative == IF leading THEN <<0>> \o GlobalCumulative(counts)
                          ELSE GlobalCumulative(counts)
            r == set_cumulative_counts(DeepSamplesNew(width, height), cumulative)
        IN  /\ r.ok
            /\ samples' = Fill(allocate_channels(r.val, alloc), seed)
    /\ op' = "make"
    /\ UNCHANGED viewer_vars
    /\ UNCHANGED <<width, height, channels, compression, pedantic, origin, packed,
                   recovered, table, disk_table, block, decoded>>

\* pack_deep_channels(&samples, &channels)
Pack ==
    /\ op = "make"
    /\ packed' = pack_deep_channels(samples, channels)
    /\ op' = "pack"
    /\ UNCHANGED viewer_vars
    /\ UNCHANGED <<width, height, channels, samples, compression, pedantic, origin,
                   recovered, table, disk_table, block, decoded>>

\* unpack_deep_channels(&packed, &mut recovered, &channels) on a fresh
\* DeepSamples with the same offsets (test pack_unpack_deep_channels).
Unpack ==
    /\ op = "pack"
    /\ LET fresh == set_cumulative_counts(DeepSamplesNew(width, height),
                                          samples.sample_offsets)
       IN  /\ fresh.ok
           /\ recovered' = unpack_run(packed, fresh.val, channels)
    /\ op' = "unpack"
    /\ UNCHANGED viewer_vars
    /\ UNCHANGED <<width, height, channels, samples, compression, pedantic, origin,
                   packed, table, disk_table, block, decoded>>

YCoordinates == {0, 2}

TileCoordinates == {[tile_index |-> <<0, 0>>, level_index |-> <<0, 0>>],
                    [tile_index |-> <<1, 0>>, level_index |-> <<0, 0>>]}

\* compress_deep_scanline_block(&samples, compression, &channels, y_coordinate)
CompressScanline ==
    /\ op = "make"
    /\ \E c \in Compressions, y_coordinate \in YCoordinates :
        /\ compression' = c
        /\ table' = cumulative_i32(samples)
        /\ block' = compress_deep_scanline_block(samples, c, channels, y_coordinate)
    /\ op' = "compress_scanline"
    /\ origin' = "encoded"
    /\ UNCHANGED viewer_vars
    /\ UNCHANGED <<width, height, channels, samples, pedantic, packed, recovered,
                   disk_table, decoded>>

\* compress_deep_tile_block(&samples, compression, &channels, coordinates)
CompressTile ==
    /\ op = "make"
    /\ \E c \in Compressions, coordinates \in TileCoordinates :
        /\ compression' = c
        /\ table' = cumulative_i32(samples)
        /\ block' = compress_deep_tile_block(samples, c, channels, coordinates)
    /\ op' = "compress_tile"
    /\ origin' = "encoded"
    /\ UNCHANGED viewer_vars
    /\ UNCHANGED <<width, height, channels, samples, pedantic, packed, recovered,
                   disk_table, decoded>>

\* ------------------------------------------------------ blocks of a file

\* Offset tables a file may hold for the counts: the per-line table, and
\* that table with one entry negative, with one entry below its predecessor
\* in the line, without its last entry, with a leading 0, and the global
\* cumulative table.
FileTables(counts, w) ==
    LET t == PerLineCumulative(counts, w)
    IN  {t, GlobalCumulative(counts), <<0>> \o t}
        \cup {[t EXCEPT ![i] = -1] : i \in 1..Len(t)}
        \cup {[t EXCEPT ![i] = t[i - 1] - 1] :
                 i \in {j \in 2..Len(t) : (j - 1) % w # 0 /\ t[j - 1] >= 1}}
        \cup (IF Len(t) > 0 THEN {SubSeq(t, 1, Len(t) - 1)} ELSE {})

\* Bytes of a sample-data section of the given length, each below 128 so
\* that every 32-bit value read from them is below 2^31.
FileBytes(length) == [i \in 1..length |-> (37 * i + 11) % 128]

\* Sample-data sections and their recorded decompressed size, around the
\* expected size: exact, one byte short, one byte long, padded with one
\* zero byte beyond the recorded size, and shorter than the recorded size.
FileData(expected) ==
    {[data |-> FileBytes(expected), size |-> expected],
     [data |-> FileBytes(expected + 1), size |-> expected + 1],
     [data |-> FileBytes(expected) \o <<0>>, size |-> expected],
     [data |-> FileBytes(expected), size |-> expected + 1]}
    \cup (IF expected > 0
          THEN {[data |-> FileBytes(expected - 1), size |-> expected - 1]} ELSE {})

\* A compressed block arrives from a file: its offset table and its sample
\* data are whatever the file holds.
ReadBlock ==
    /\ op = "new"
    /\ \E counts \in CountVectors(width * height), tile \in BOOLEAN :
        \E t \in FileTables(counts, width) :
        \E d \in (IF t = PerLineCumulative(counts, width)
                  THEN FileData(SumTo(counts, Len(counts))
                                * SumBytes(channels, Len(channels.list)))
                  ELSE {[data |-> <<>>, size |-> 0]}) :
        \E c \in (IF t = PerLineCumulative(counts, width) /\ Len(d.data) = d.size
                  THEN Compressions ELSE {"Uncompressed"}) :
            /\ compression' = c
            /\ disk_table' = t
            /\ block' =
                 Ok((IF tile THEN [coordinates |-> [tile_index |-> <<0, 0>>,
                                                    level_index |-> <<0, 0>>]]
                     ELSE [y_coordinate |-> 0]) @@
                    [decompressed_sample_data_size |-> d.size,
                     compressed_pixel_offset_table |->
                         LET bytes == Flatten([i \in 1..Len(t) |-> to_le_bytes(t[i], 4)])
                         IN  [i \in 1..Len(bytes) |-> AsI8(bytes[i])],
                     compressed_sample_data_le |-> d.data])
            /\ op' = IF tile THEN "read_tile" ELSE "read_scanline"
    /\ origin' = "file"
    /\ UNCHANGED viewer_vars
    /\ UNCHANGED <<width, height, channels, samples, pedantic, packed, recovered, table,
                   decoded>>

\* decompress_deep_scanline_block(&block, compression, &channels, width, height, pedantic)
DecompressScanline ==
    /\ op \in {"compress_scanline", "read_scanline"}
    /\ block.ok
    /\ \E p \in BOOLEAN :
        /\ pedantic' = p
        /\ decoded' = decompress_deep_scanline_block(block.val, compression, channels,
                                                     width, height, p)
    /\ op' = "decompress_scanline"
    /\ UNCHANGED viewer_vars
    /\ UNCHANGED <<width, height, channels, samples, compression, origin, packed,
                   recovered, table, disk_table, block>>

\* decompress_deep_tile_block(&block, compression, &channels, width, height, pedantic)
DecompressTile ==
    /\ op \in {"compress_tile", "read_tile"}
    /\ block.ok
    /\ \E p \in BOOLEAN :
        /\ pedantic' = p
        /\ decoded' = decompress_deep_tile_block(block.val, compression, channels,
                                                 width, height, p)
    /\ op' = "decompress_tile"
    /\ UNCHANGED viewer_vars
    /\ UNCHANGED <<width, height, channels, samples, compression, origin, packed,
                   recovered, table, disk_table, block>>

Next ==
    \/ MakeSamples
    \/ Pack
    \/ Unpack
    \/ CompressScanline
    \/ CompressTile
    \/ ReadBlock
    \/ DecompressScanline
    \/ DecompressTile

Spec == Init /\ [][Next]_vars

\* ================================================================== viewer
\* src/view/app.rs. ViewerApp lives on the UI thread; eframe calls update once
\* per frame. The worker thread (ViewerHandler) receives the messages of tx in
\* the order they were sent and answers with events on rx.

MaxGeneration == 2

MaxSent == 4

MaxEvents == 1

\* ViewerMsg; payloads other than the generation and the channel mode are
\* left out.
Msg(type) == [type |-> type]

SyncGeneration(g) == [type |-> "SyncGeneration", generation |-> g]

SetChannelMode(mode) == [type |-> "SetChannelMode", mode |-> mode]

\* ViewerEvent; of TextureReady the generation and the pixels are kept.
Event(type) == [type |-> type]

TextureReady(g, pixels) == [type |-> "TextureReady", generation |-> g, pixels |-> pixels]

\* The fields of ViewerApp the handlers work on.
App == [generation |-> generation, texture |-> texture, state |-> state, tx |-> tx]

\* fn send(&self, msg)
send(app, msg) == [app EXCEPT !.tx = Append(@, msg)]

\* send_regen that announces the generation it had before the increment.
send_regen_old_generation(app, msg) ==
    LET bumped == [app EXCEPT !.generation = @ + 1]
    IN  send(send(bumped, SyncGeneration(app.generation)), msg)

\* fn send_regen(&mut self, msg)
send_regen(app, msg) ==
    LET bumped == [app EXCEPT !.generation = @ + 1]
    IN  send(send(bumped, SyncGeneration(bumped.generation)), msg)

\* fn open_file_dialog(&mut self); picked: the user chose a file.
open_file_dialog(app, picked) ==
    IF picked THEN send(app, Msg("LoadImage")) ELSE app

\* process_events that loads every TextureReady, whatever its generation.
RECURSIVE process_events_any_generation(_, _)
process_events_any_generation(app, events) ==
    IF events = <<>> THEN app
    ELSE LET event == Head(events)
             next ==
                 CASE event.type = "ImageLoaded" ->
                        send([app EXCEPT !.state.error = None], Msg("FitToWindow"))
                   [] event.type = "TextureReady" ->
                        [app EXCEPT !.texture = Some(event.pixels)]
                   [] event.type = "StateSync" -> app
                   [] event.type = "Error" -> [app EXCEPT !.state.error = Some("msg")]
         IN  process_events_any_generation(next, Tail(events))

\* fn process_events(&mut self, ctx): events is what try_recv yields until the
\* channel is empty.
RECURSIVE process_events(_, _)
process_events(app, events) ==
    IF events = <<>> THEN app
    ELSE LET event == Head(events)
             next ==
                 CASE event.type = "ImageLoaded" ->
                        send([app EXCEPT !.state.error = None], Msg("FitToWindow"))
                   [] event.type = "TextureReady" ->
                        IF event.generation < app.generation THEN app
                        ELSE [app EXCEPT !.texture = Some(event.pixels)]
                   [] event.type = "StateSync" -> app
                   [] event.type = "Error" -> [app EXCEPT !.state.error = Some("msg")]
         IN  process_events(next, Tail(events))

\* fn handle_dropped_files(&mut self, ctx); dropped: a file with a path was
\* dropped on the window.
handle_dropped_files(app, dropped) ==
    IF dropped THEN send(app, Msg("LoadImage")) ELSE app

\* fn handle_input(&mut self, ctx) -> bool; keys: the keys pressed in this
\* frame, "Ctrl" for the modifier and "Scroll" for a scroll delta.
handle_input(app, keys, picked) ==
    LET ctrl == "Ctrl" \in keys
        regen(a, key, mode) ==
            IF key \in keys /\ ~ctrl THEN send_regen(a, SetChannelMode(mode)) ELSE a
        a1 == IF "F" \in keys THEN send(app, Msg("FitToWindow")) ELSE app
        a2 == IF "H" \in keys \/ "Num0" \in keys THEN send(a1, Msg("Home")) ELSE a1
        a3 == IF "Plus" \in keys \/ "Equals" \in keys THEN send(a2, Msg("Zoom")) ELSE a2
        a4 == IF "Minus" \in keys THEN send(a3, Msg("Zoom")) ELSE a3
        a5 == regen(a4, "R", "Red")
        a6 == regen(a5, "G", "Green")
        a7 == regen(a6, "B", "Blue")
        a8 == regen(a7, "A", "Alpha")
        a9 == regen(a8, "C", "Color")
        a10 == regen(a9, "Z", "Depth")
        a11 == IF "L" \in keys THEN send_regen(a10, SetChannelMode("Luminance")) ELSE a10
        a12 == IF "Scroll" \in keys THEN send(a11, Msg("Zoom")) ELSE a11
        a13 == IF "O" \in keys /\ ctrl THEN open_file_dialog(a12, picked) ELSE a12
    IN  [app |-> a13, exit |-> "Escape" \in keys]

\* fn draw_controls(&mut self, ctx); change: the widget the user changed in
\* this frame. The conditions under which a widget is shown are left out.
draw_controls(app, change, picked) ==
    CASE change = "layer" -> send_regen(app, Msg("SetLayer"))
      [] change = "channel_mode" -> send_regen(app, SetChannelMode("Color"))
      [] change = "channel" -> send_regen(app, Msg("SetChannel"))
      [] change = "exposure" -> send_regen(app, Msg("SetExposure"))
      [] change = "srgb" -> send_regen(app, Msg("SetSrgb"))
      [] change = "open" -> open_file_dialog(app, picked)
      [] change = "refresh" -> send(app, Msg("Regenerate"))
      [] change = "deep_mode" -> send_regen(app, Msg("SetDeepMode"))
      [] change = "slice" -> send_regen(app, Msg("SetSliceRange"))
      [] change = "depth_mode" -> send_regen(app, Msg("SetDepthMode"))
      [] change = "depth" -> send_regen(app, Msg("SetDepthRange"))
      [] change = "invert" -> send_regen(app, Msg("SetInvertDepth"))
      [] OTHER -> app

\* fn draw_2d_canvas(&mut self, ui, available)
draw_2d_canvas(app, gesture, picked) ==
    IF app.texture.some
    THEN LET a1 == IF gesture.dragged THEN send(app, Msg("Pan")) ELSE app
         IN  IF gesture.double_clicked THEN send(a1, Msg("FitToWindow")) ELSE a1
    ELSE IF gesture.double_clicked THEN open_file_dialog(app, picked) ELSE app

\* fn draw_canvas(&mut self, ctx); gesture.resized: the available size differs
\* from state.viewport_size. The display mode is 2D.
draw_canvas(app, gesture, picked) ==
    LET a1 == IF gesture.resized THEN send(app, Msg("SetViewport")) ELSE app
    IN  IF a1.state.error.some THEN a1 ELSE draw_2d_canvas(a1, gesture, picked)

\* fn update(&mut self, ctx, _frame): one frame, with the events waiting on
\* rx and the user's input of the frame.
update(app, events, frame) ==
    LET a1 == process_events(app, events)
        a2 == handle_dropped_files(a1, frame.dropped)
        r == handle_input(a2, frame.keys, frame.picked)
    IN  IF r.exit
        THEN [app |-> send(r.app, Msg("Close")), closed |-> TRUE]
        ELSE [app |-> draw_canvas(draw_controls(r.app, frame.change, frame.picked),
                                  frame.gesture, frame.picked),
              closed |-> FALSE]

NoGesture == [resized |-> FALSE, dragged |-> FALSE, double_clicked |-> FALSE]

Frame(dropped, keys, change, gesture) ==
    [dropped |-> dropped, keys |-> keys, change |-> change, gesture |-> gesture,
     picked |-> TRUE]

\* What the user does in one frame.
Frames ==
    { Frame(FALSE, {}, "none", NoGesture),
      Frame(TRUE, {}, "none", NoGesture),
      Frame(FALSE, {"R"}, "none", NoGesture),
      Frame(FALSE, {"R", "Ctrl"}, "none", NoGesture),
      Frame(FALSE, {"Escape"}, "none", NoGesture),
      Frame(FALSE, {}, "exposure", NoGesture),
      Frame(FALSE, {}, "refresh", NoGesture),
      Frame(FALSE, {}, "none", [NoGesture EXCEPT !.double_clicked = TRUE]) }

\* What the worker may send: it is not constrained, except that the pixels
\* of a TextureReady are the picture of its generation.
Events ==
    {Event("ImageLoaded"), Event("StateSync"), Event("Error")}
        \cup {TextureReady(g, g) : g \in 0..MaxGeneration}

\* ViewerApp::new(_cc, image_path, config)
ViewerInit ==
    /\ width = 0 /\ height = 0 /\ channels = <<>> /\ samples = <<>>
    /\ compression = "Uncompressed" /\ pedantic = TRUE /\ op = "new"
    /\ origin = "none" /\ packed = <<>> /\ recovered = <<>> /\ table = <<>>
    /\ disk_table = <<>> /\ block = <<>> /\ decoded = <<>>
    /\ generation = 0
    /\ texture = None
    /\ state = [error |-> None]
    /\ \E given \in BOOLEAN : tx = IF given THEN <<Msg("LoadImage")>> ELSE <<>>
    /\ rx = <<>>
    /\ running = TRUE
    /\ handled = [events |-> <<>>, generation |-> 0]

\* eframe calls update for the next frame.
Update ==
    /\ running
    /\ \E frame \in Frames :
        LET r == update(App, rx, frame)
        IN  /\ Len(r.app.tx) <= MaxSent
            /\ r.app.generation <= MaxGeneration
            /\ generation' = r.app.generation
            /\ texture' = r.app.texture
            /\ state' = r.app.state
            /\ tx' = r.app.tx
            /\ running' = ~r.closed
    /\ handled' = [events |-> rx, generation |-> generation]
    /\ rx' = <<>>
    /\ UNCHANGED codec_vars

\* The worker thread sends an event.
WorkerSend ==
    /\ running
    /\ Len(rx) < MaxEvents
    /\ \E event \in Events : rx' = Append(rx, event)
    /\ handled' = [events |-> <<>>, generation |-> generation]
    /\ UNCHANGED <<generation, texture, state, tx, running>>
    /\ UNCHANGED codec_vars

ViewerNext ==
    \/ Update
    \/ WorkerSend

ViewerSpec == ViewerInit /\ [][ViewerNext]_vars

\* ============================================================== properties

\* The array variants agree with the channel list, channel by channel.
Matching(s, ch) ==
    /\ Len(s.channels) = Len(ch.list)
    /\ \A c \in 1..Len(ch.list) : s.channels[c].tag = ch.list[c].sample_type

Decoding == op \in {"decompress_scanline", "decompress_tile"}

Compressing == op \in {"compress_scanline", "compress_tile"}

C2_PackUnpackRoundTrip ==
    (op = "unpack" /\ Matching(samples, channels))
    => /\ recovered.result.ok
       /\ recovered.result.val.channels = samples.channels

\* C2 witness: a round trip of two pixels with samples, over a half-float
\* channel and a 32-bit channel.
C2_Witness ==
    /\ op = "unpack"
    /\ Matching(samples, channels)
    /\ Len(channels.list) = 2
    /\ channels.list[1].sample_type = "F16"
    /\ channels.list[2].sample_type = "U32"
    /\ \E p \in 1..(Len(samples.sample_offsets) - 2) :
          /\ samples.sample_offsets[p] < samples.sample_offsets[p + 1]
          /\ samples.sample_offsets[p + 1] < samples.sample_offsets[p + 2]
    /\ recovered.result.ok
    /\ recovered.result.val.channels = samples.channels

RECURSIVE DiskToPixel(_, _, _)
\* The per-pixel global cumulative offsets of the first n entries of an
\* on-disk per-line table T: offsets[0] = 0 and
\* offsets[i+1] = offsets[i] + (T[i] - (i first in its row ? 0 : T[i-1])).
DiskToPixel(T, w, n) ==
    IF n = 0 THEN <<0>>
    ELSE LET before == DiskToPixel(T, w, n - 1)
             count == T[n] - (IF (n - 1) % w = 0 THEN 0 ELSE T[n - 1])
         IN  Append(before, before[n] + count)

\* A valid on-disk table: one entry per pixel, none negative, none below its
\* predecessor in the same line.
ValidDiskTable(T, w, h) ==
    /\ Len(T) = w * h
    /\ \A i \in 1..Len(T) : T[i] >= 0
    /\ \A i \in 2..Len(T) : (i - 1) % w # 0 => T[i - 1] <= T[i]

\* The block read holds a valid table, a supported compression, and sample
\* data of exactly the size the table and the channels call for.
WellFormedFileBlock ==
    /\ origin = "file"
    /\ SupportsDeep(compression)
    /\ ValidDiskTable(disk_table, width, height)
    /\ LET total == DiskToPixel(disk_table, width, Len(disk_table))[Len(disk_table) + 1]
           expected == total * SumBytes(channels, Len(channels.list))
       IN  /\ block.val.decompressed_sample_data_size = expected
           /\ Len(block.val.compressed_sample_data_le) = expected

\* C3 (as stated): decode turns every valid on-disk per-line table into the
\* per-pixel global cumulative offsets.
C3_DiskToPixelOffsets ==
    (Decoding /\ WellFormedFileBlock)
    => /\ decoded.result.ok
       /\ decoded.result.val.sample_offsets
            = DiskToPixel(disk_table, width, Len(disk_table))

\* C4 (as stated): the table handed to compress_sample_table has width*height
\* entries and table[y*width + x] = sample_offsets[y*width + x + 1]
\* - sample_offsets[y*width] for every pixel (x, y).
C4_PixelToDiskTable ==
    Compressing
    => /\ Len(table) = width * height
       /\ \A y \in 0..(height - 1), x \in 0..(width - 1) :
            table[y * width + x + 1]
              = samples.sample_offsets[y * width + x + 2]
                - samples.sample_offsets[y * width + 1]

\* Bytes per sample over the whole channel list.
Stride == SumBytes(channels, Len(channels.list))

C6_PackSizeIdentity ==
    op = "pack" => Len(packed) = total_samples(samples) * Stride

\* C7 (as stated): every block record returned by a compress function
\* records as decompressed_sample_data_size the length of the packed stream,
\* and that is total_samples * (sum of bytes_per_sample).
C7_RecordedSize ==
    (Compressing /\ block.ok)
    => /\ block.val.decompressed_sample_data_size
            = Len(pack_deep_channels(samples, channels))
       /\ block.val.decompressed_sample_data_size = total_samples(samples) * Stride

\* The total_samples the table installed by a decode fixes.
InstalledTotal ==
    IF decoded.installed = <<>> THEN 0 ELSE decoded.installed[Len(decoded.installed)]

\* C8: when total_samples >= 1 and the buffer handed to unpack is not
\* total_samples * (sum of bytes_per_sample) bytes long, unpack returns
\* SizeMismatch, and a decode returns that error, whatever pedantic is.
C8_LengthEnforced ==
    /\ (/\ op = "unpack"
        /\ total_samples(samples) >= 1
        /\ Len(packed) # total_samples(samples) * Stride)
       => recovered.result = Err("SizeMismatch")
    /\ (/\ Decoding
        /\ "unpack_deep_channels" \in {decoded.calls[i] : i \in 1..Len(decoded.calls)}
        /\ InstalledTotal >= 1
        /\ Len(decoded.unpacked) # InstalledTotal * Stride)
       => decoded.result = Err("SizeMismatch")

\* C8 witness: a lenient decode whose sample data is one byte longer than
\* the samples call for reached unpack and returned SizeMismatch.
C8_Witness ==
    /\ Decoding
    /\ ~pedantic
    /\ Len(channels.list) >= 1
    /\ InstalledTotal >= 1
    /\ decoded.calls[Len(decoded.calls)] = "unpack_deep_channels"
    /\ Len(decoded.unpacked) = InstalledTotal * Stride + 1
    /\ decoded.result = Err("SizeMismatch")

\* The table decompress_sample_table returned to the decode.
DecompressedTable == IF origin = "file" THEN disk_table ELSE table

\* The decode got a table from decompress_sample_table.
TableDecompressed == Decoding /\ Len(decoded.calls) >= 2

\* Some entry of T is below its predecessor in the same line.
HasDecreasingPairInLine(T, w) ==
    \E i \in 2..Len(T) : (i - 1) % w # 0 /\ T[i] < T[i - 1]

\* C9: a decode whose decompressed table has an entry below its predecessor
\* in the same scanline returns Malformed.
C9_MonotoneWithinLine ==
    (TableDecompressed /\ HasDecreasingPairInLine(DecompressedTable, width))
    => decoded.result = Err("Malformed")

\* C9 witness: a table without negative entries, with an entry below its
\* predecessor in the line, was refused as Malformed.
C9_Witness ==
    /\ TableDecompressed
    /\ \A i \in 1..Len(DecompressedTable) : DecompressedTable[i] >= 0
    /\ HasDecreasingPairInLine(DecompressedTable, width)
    /\ decoded.result = Err("Malformed")

ErrorKinds == {"Malformed", "SizeMismatch", "Unsupported", "InternalConsistency"}

Returned(result) == result.ok \/ result \in {Err(kind) : kind \in ErrorKinds}

SatisfiesI1I2(s, w, h, ch) ==
    /\ Len(s.sample_offsets) = w * h + 1
    /\ s.sample_offsets[1] = 0
    /\ \A i \in 1..(w * h) : s.sample_offsets[i] <= s.sample_offsets[i + 1]
    /\ Len(s.channels) = Len(ch.list)
    /\ \A c \in 1..Len(ch.list) :
          /\ s.channels[c].tag = ch.list[c].sample_type
          /\ Len(s.channels[c].v) = s.sample_offsets[w * h + 1]

\* C14: every DeepSamples a decode returns as Ok satisfies I1 and I2 for the
\* block's extents and channel list.
C14_DecodePostcondition ==
    (Decoding /\ decoded.result.ok)
    => SatisfiesI1I2(decoded.result.val, width, height, channels)

\* C14 witness: a decode returned a DeepSamples of at least two pixels and
\* two samples, with two channels of different sample types.
C14_Witness ==
    /\ Decoding
    /\ decoded.result.ok
    /\ width * height >= 2
    /\ Len(channels.list) = 2
    /\ channels.list[1].sample_type # channels.list[2].sample_type
    /\ decoded.result.val.sample_offsets[width * height + 1] >= 2
    /\ SatisfiesI1I2(decoded.result.val, width, height, channels)

\* C15: for a DeepSamples of no samples pack_deep_channels returns the empty
\* byte stream, and unpack of it succeeds and leaves one empty array per
\* channel of the list, with the variant of the channel's sample_type.
C15_ZeroSamples ==
    /\ (op \in {"pack", "unpack"} /\ total_samples(samples) = 0) => packed = <<>>
    /\ (op = "unpack" /\ total_samples(samples) = 0)
       => /\ recovered.result.ok
          /\ Len(recovered.result.val.channels) = Len(channels.list)
          /\ \A c \in 1..Len(channels.list) :
                recovered.result.val.channels[c]
                  = [tag |-> channels.list[c].sample_type, v |-> <<>>]

\* C15 witness: a block of width 0 and two channels was packed to nothing
\* and unpacked to two empty arrays.
C15_Witness ==
    /\ op = "unpack"
    /\ width = 0
    /\ height >= 1
    /\ samples.sample_offsets = <<0>>
    /\ Len(channels.list) = 2
    /\ packed = <<>>
    /\ recovered.result.ok
    /\ Len(recovered.result.val.channels) = 2

\* The decode's handling of a decompressed table: validate_sample_table,
\* the cast of each entry to u32, set_cumulative_counts on a fresh
\* DeepSamples; each `?` returns the error.
install_table(cumulative_counts, width_, height_) ==
    LET validated == validate_sample_table(cumulative_counts)
    IN  IF ~validated.ok THEN validated
        ELSE set_cumulative_counts(DeepSamplesNew(width_, height_),
                                   [i \in 1..Len(cumulative_counts) |->
                                       AsU32(cumulative_counts[i])])

\* Encode's table, handled by the decode, gives back the offsets.
EncodeThenDecodeTable ==
    (Compressing /\ \A i \in 1..Len(samples.sample_offsets) :
                        samples.sample_offsets[i] <= I32Max)
    => LET r == install_table(table, width, height)
       IN  r.ok /\ r.val.sample_offsets = samples.sample_offsets

\* A valid on-disk table, handled by the decode and converted back by the
\* encode, gives back the table.
DecodeThenEncodeTable ==
    (origin = "file" /\ ValidDiskTable(disk_table, width, height))
    => LET r == install_table(disk_table, width, height)
       IN  r.ok /\ cumulative_i32(r.val) = disk_table

\* C16 (as stated): the offsets-to-table conversion of the encode and the
\* table handling of the decode are inverse to each other, in both orders.
C16_TableBijection == EncodeThenDecodeTable /\ DecodeThenEncodeTable

\* What pack_deep_channels returned to its caller: it returns a Vec<u8>,
\* it has no error to return.
PackOutcome == Ok(packed)

\* C17 (as stated): a pack of a DeepSamples with an array whose variant
\* differs from the sample_type of its channel fails with
\* InternalConsistency.
C17_VariantMismatchChecked ==
    (op = "pack" /\ ~Matching(samples, channels))
    => ~PackOutcome.ok /\ PackOutcome.err = "InternalConsistency"

\* C18 (as stated): a compress of a DeepSamples that violates I1 or I2
\* returns an InternalConsistency error and no block.
C18_EncodeValidatesInput ==
    (Compressing /\ ~SatisfiesI1I2(samples, width, height, channels))
    => block = Err("InternalConsistency")

\* C19 (as stated): an unpack of a non-empty buffer into a DeepSamples of
\* no samples returns SizeMismatch, so that a decode handing it such a
\* buffer returns that error; and an unpack that returns Ok has consumed
\* the whole buffer.
C19_SizeCheckFirst ==
    /\ (/\ Decoding
        /\ "unpack_deep_channels" \in {decoded.calls[i] : i \in 1..Len(decoded.calls)}
        /\ InstalledTotal = 0
        /\ Len(decoded.unpacked) > 0)
       => decoded.result = Err("SizeMismatch")
    /\ (op = "unpack" /\ recovered.result.ok) => recovered.data_offset = Len(packed)

\* The steps of a decode, in the order of the source.
DecodeSteps ==
    <<"decompress_sample_table", "validate_sample_table", "set_cumulative_counts",
      "decompress_sample_data", "unpack_deep_channels", "validate">>

\* The block's offset table fails decompression, validation or installation.
TableFails ==
    \/ ~SupportsDeep(compression)
    \/ Len(DecompressedTable) # width * height
    \/ ~install_table(DecompressedTable, width, height).ok

\* C20: a decode runs its steps in the order decompress_sample_table,
\* validate_sample_table, set_cumulative_counts, decompress_sample_data,
\* unpack_deep_channels, validate, and stops at the first that fails: it
\* returns Ok only after all six, an error after fewer ends the decode with
\* no later step run, and decompress_sample_data is not among the steps of a
\* block whose table fails.
C20_StepOrder ==
    Decoding
    => /\ Len(decoded.calls) \in 1..Len(DecodeSteps)
       /\ decoded.calls = SubSeq(DecodeSteps, 1, Len(decoded.calls))
       /\ decoded.result.ok => decoded.calls = DecodeSteps
       /\ Len(decoded.calls) < Len(DecodeSteps) => ~decoded.result.ok
       /\ TableFails
            => /\ ~decoded.result.ok
               /\ Len(decoded.calls) <= 3
               /\ decoded.unpacked = <<>>

\* C20 witness: a decode of a block whose table was refused at the
\* installation, with sample data present, stopped after three steps.
C20_Witness ==
    /\ Decoding
    /\ origin = "file"
    /\ TableFails
    /\ Len(block.val.compressed_sample_data_le) >= 1
    /\ decoded.calls = SubSeq(DecodeSteps, 1, 3)
    /\ decoded.result = Err("Malformed")

\* The fields a scanline block record and a tile block record share.
Payload(record) ==
    <<record.decompressed_sample_data_size, record.compressed_pixel_offset_table,
      record.compressed_sample_data_le>>

\* C21: whatever one decode returned (decoded), the other decode returns on
\* the same table bytes, sample bytes, recorded size, compression, channel
\* list, extents and pedantic flag; whatever one compress returned (block),
\* the other compress, given the same samples, compression and channels and
\* any coordinate, fails with the same error or returns a record with the
\* same size, table and sample data that carries the coordinate it was given.
C21_ScanlineTileEquivalent ==
    /\ op = "decompress_scanline"
       => decompress_deep_tile_block(block.val, compression, channels,
                                     width, height, pedantic).result = decoded.result
    /\ op = "decompress_tile"
       => decompress_deep_scanline_block(block.val, compression, channels,
                                         width, height, pedantic).result = decoded.result
    /\ op = "compress_scanline"
       => \A c \in TileCoordinates :
            LET t == compress_deep_tile_block(samples, compression, channels, c)
            IN  /\ t.ok = block.ok
                /\ ~t.ok => t = block
                /\ t.ok => Payload(t.val) = Payload(block.val) /\ t.val.coordinates = c
    /\ op = "compress_tile"
       => \A y \in YCoordinates :
            LET s == compress_deep_scanline_block(samples, compression, channels, y)
            IN  /\ s.ok = block.ok
                /\ ~s.ok => s = block
                /\ s.ok => Payload(s.val) = Payload(block.val) /\ s.val.y_coordinate = y

\* C21 witness: a tile decode returned a DeepSamples with samples in two
\* channels, and the scanline decode of the same block returns the same.
C21_Witness ==
    /\ op = "decompress_tile"
    /\ decoded.result.ok
    /\ Len(channels.list) = 2
    /\ decoded.result.val.sample_offsets[width * height + 1] >= 2
    /\ decompress_deep_scanline_block(block.val, compression, channels,
                                      width, height, pedantic).result = decoded.result

\* The TextureReady events of a batch that are not older than generation g.
Fresh(events, g) ==
    {i \in DOMAIN events :
        events[i].type = "TextureReady" /\ events[i].generation >= g}

Last(S) == CHOOSE i \in S : \A j \in S : j <= i

\* C22: in every step, whatever the user and the worker did before, a batch
\* of events with no TextureReady of the app's generation or newer (only stale
\* TextureReady, ImageLoaded, StateSync, Error, or nothing) leaves the
\* texture as it is, and a texture that changes becomes the picture of the
\* batch's last TextureReady whose generation is at least the app's
\* generation at the time process_events ran.
C22_StaleTextureRejected ==
    [][ /\ Fresh(rx, generation) = {} => texture' = texture
        /\ texture' # texture
           => /\ rx' = <<>>
              /\ handled'.events = rx
              /\ texture' = Some(rx[Last(Fresh(rx, generation))].pixels) ]_vars

\* C22 witness: the app shows the picture of generation 1, is at generation
\* 2, and the last process_events received a TextureReady of generation 1
\* when the app was already at generation 2: it was dropped.
C22_Witness ==
    /\ generation = 2
    /\ handled.generation = 2
    /\ handled.events = <<TextureReady(1, 1)>>
    /\ texture = Some(1)
    /\ \E i \in DOMAIN tx : tx[i] = SyncGeneration(2)

\* The messages send_regen is called with.
Regenerating ==
    {"SetLayer", "SetChannelMode", "SetChannel", "SetExposure", "SetSrgb", "SetDeepMode",
     "SetSliceRange", "SetDepthMode", "SetDepthRange", "SetInvertDepth"}

\* The places of the SyncGeneration messages in a sequence of messages.
Syncs(messages) == {i \in DOMAIN messages : messages[i].type = "SyncGeneration"}

\* What the channel to the worker looks like when the app is at generation g:
\* the k-th SyncGeneration carries k, the last one carries g, each is directly
\* followed by a regenerating message, and no regenerating message stands
\* anywhere else.
ChannelProtocol(messages, g) ==
    /\ Cardinality(Syncs(messages)) = g
    /\ \A i \in Syncs(messages) :
        /\ messages[i].generation = Cardinality({j \in Syncs(messages) : j <= i})
        /\ i < Len(messages)
        /\ messages[i + 1].type \in Regenerating
    /\ \A i \in DOMAIN messages :
        messages[i].type \in Regenerating
            => i > 1 /\ messages[i - 1].type = "SyncGeneration"

\* C23: the generation starts at 0 and never decreases; messages are only
\* appended to the channel; a step that appends k regenerating messages
\* raises the generation by k, one by one, each such message directly after
\* the SyncGeneration of the generation reached, so that SyncGeneration values
\* increase strictly along the channel; a step that sends only plain messages
\* (LoadImage, FitToWindow, Home, Zoom, Pan, SetViewport, Regenerate, Close)
\* leaves the generation as it is.
C23_GenerationProtocol ==
    /\ generation = 0
    /\ []ChannelProtocol(tx, generation)
    /\ [][ /\ generation' >= generation
           /\ Len(tx') >= Len(tx)
           /\ SubSeq(tx', 1, Len(tx)) = tx
           /\ generation' - generation
                = Cardinality({i \in DOMAIN tx' : i > Len(tx) /\ tx'[i].type \in Regenerating})
           /\ \A i \in Syncs(tx') : \A j \in Syncs(tx') :
                i < j => tx'[i].generation < tx'[j].generation ]_vars

\* C23 witness: two regenerating messages were sent, one by handle_input and
\* one by draw_controls; the app is at generation 2.
C23_Witness ==
    /\ generation = 2
    /\ tx = <<SyncGeneration(1), SetChannelMode("Red"), SyncGeneration(2),
              Msg("SetExposure")>>

====
